---- MODULE Spec2Model ----
(***************************************************************************)
(* A model of keyraken.py: the KeyringManager class (attribute codec,      *)
(* item search, create/read/update/delete, lock handling, teardown) and    *)
(* the command dispatch of main().                                         *)
(*                                                                         *)
(* Python values are modelled as follows.                                  *)
(*   str        [kind |-> "str",   data |-> sequence of code points]       *)
(*   bytes      [kind |-> "bytes", data |-> sequence of numbers 0..255]    *)
(*   None / x   <<>> / <<x>>              (an optional value)              *)
(*   dict       a function from a finite set of keys                       *)
(*   list       a sequence                                                 *)
(* The Secret Service collection is the sequence `items` in the order      *)
(* get_all_items() enumerates it; an item's path is a number the backend   *)
(* assigns at creation.                                                    *)
(***************************************************************************)
EXTENDS Integers, Sequences, FiniteSets, TLC

VARIABLES
    items,        \* the collection's items, in backend enumeration order
    locked,       \* Collection.is_locked()
    nextPath,     \* the path the backend gives to the next created item
    pc,           \* where the invocation stands
    args,         \* the parsed command line (argparse namespace)
    conn,         \* "none" | "open" | "closed": the D-Bus connection
    registered,   \* TRUE once atexit.register(self._close) has run
    retcode,      \* what main() returned; -1 while it has not returned
    fault,        \* the exception that propagated out uncaught; "none" if none
    unlockReqs,   \* Collection.unlock() calls sent to the service
    lockReqs,     \* Collection.lock() calls sent to the service
    closeRuns,    \* how many times _close has been entered
    enumerated,   \* TRUE once get_all_items() has been called
    matched,      \* the paths search_items returned, in order
    out,          \* what read_item or list_items returned to main()
    cIn,          \* codec: the logical attribute mapping handed in
    cWire,        \* codec: <<>> or <<the mapping _encode_attributes returned>>
    cOut,         \* codec: <<>> or <<the mapping _decode_attributes returned>>
    dismissed,    \* TRUE iff the last _unlock call reported a dismissed prompt
    calls,        \* lock-handling model: the method calls made so far
    items0,       \* history: the collection when the invocation started
    locked0       \* history: the lock state when the invocation started

vars == <<items, locked, nextPath, pc, args, conn, registered, retcode, fault,
          unlockReqs, lockReqs, closeRuns, enumerated, matched, out,
          cIn, cWire, cOut, dismissed, calls, items0, locked0>>

codecVars == <<cIn, cWire, cOut>>

historyVars == <<items0, locked0>>

-----------------------------------------------------------------------------
(* Bounds of the model. *)

\* the largest number of items a collection holds in an initial state
MaxItems == 2

\* how many method calls one manager receives in the lock-handling model
MaxCalls == 3

\* the longest str or bytes value the codec model is handed
MaxValueLen == 2

-----------------------------------------------------------------------------
(* Python values. *)

None == <<>>
Some(x) == <<x>>

Str(t) == [kind |-> "str", data |-> t]
Bytes(b) == [kind |-> "bytes", data |-> b]

\* dict.get(k): None when the key is absent
Get(d, k) == IF k \in DOMAIN d THEN Some(d[k]) ELSE None

\* {**a, **b}: the keys of both, b's value on a collision
DictMerge(a, b) ==
    [k \in (DOMAIN a) \cup (DOMAIN b) |-> IF k \in DOMAIN b THEN b[k] ELSE a[k]]

\* a dict after `del d[k]` for every k of ks that it holds
DictWithout(d, ks) == [k \in (DOMAIN d) \ ks |-> d[k]]

EmptyDict == [k \in {} |-> 0]

-----------------------------------------------------------------------------
(* UTF-8, as str.encode('utf-8') / bytes.decode('utf-8') compute it. *)

\* the bytes of one code point (no surrogates: 0xD800..0xDFFF do not encode)
Utf8EncodeCp(c) ==
    IF c < 128 THEN <<c>>
    ELSE IF c < 2048 THEN <<192 + (c \div 64), 128 + (c % 64)>>
    ELSE IF c < 65536 THEN
        <<224 + (c \div 4096), 128 + ((c \div 64) % 64), 128 + (c % 64)>>
    ELSE <<240 + (c \div 262144), 128 + ((c \div 4096) % 64),
           128 + ((c \div 64) % 64), 128 + (c % 64)>>

RECURSIVE Utf8Encode(_)
Utf8Encode(t) ==
    IF t = <<>> THEN <<>> ELSE Utf8EncodeCp(Head(t)) \o Utf8Encode(Tail(t))

IsCont(b, i) == i <= Len(b) /\ b[i] >= 128 /\ b[i] <= 191

\* the strict decoder: <<>> when the bytes are not valid UTF-8 (Python raises
\* UnicodeDecodeError), else <<the text>>
RECURSIVE Utf8Decode(_)
Utf8Decode(b) ==
    IF b = <<>> THEN Some(<<>>)
    ELSE
      LET b0 == b[1]
          n == IF b0 < 128 THEN 1
               ELSE IF b0 >= 194 /\ b0 <= 223 THEN 2
               ELSE IF b0 >= 224 /\ b0 <= 239 THEN 3
               ELSE IF b0 >= 240 /\ b0 <= 244 THEN 4
               ELSE 0
          wellFormed ==
              /\ n > 0
              /\ \A i \in 2..n : IsCont(b, i)
              /\ (b0 = 224 => b[2] >= 160)
              /\ (b0 = 237 => b[2] <= 159)
              /\ (b0 = 240 => b[2] >= 144)
              /\ (b0 = 244 => b[2] <= 143)
          cp == IF n = 1 THEN b0
                ELSE IF n = 2 THEN (b0 - 192) * 64 + (b[2] - 128)
                ELSE IF n = 3 THEN
                    (b0 - 224) * 4096 + (b[2] - 128) * 64 + (b[3] - 128)
                ELSE (b0 - 240) * 262144 + (b[2] - 128) * 4096
                     + (b[3] - 128) * 64 + (b[4] - 128)
      IN IF ~wellFormed THEN None
         ELSE LET rest == Utf8Decode(SubSeq(b, n + 1, Len(b)))
              IN IF rest = None THEN None ELSE Some(<<cp>> \o rest[1])

-----------------------------------------------------------------------------
(* The attribute codec of KeyringManager. *)

\* _decode_attributes without the conversion: every value passes through
decode_attributes_identity(attributes) ==
    [k \in DOMAIN attributes |-> attributes[k]]

\* _decode_attributes: every str value becomes its UTF-8 bytes, any other
\* value passes through
decode_attributes(attributes) ==
    [k \in DOMAIN attributes |->
        IF attributes[k].kind = "str"
        THEN Bytes(Utf8Encode(attributes[k].data))
        ELSE attributes[k]]

\* _encode_attributes raises UnicodeDecodeError when a bytes value is not UTF-8
encode_raises(attributes) ==
    \E k \in DOMAIN attributes :
        attributes[k].kind = "bytes" /\ Utf8Decode(attributes[k].data) = None

\* _encode_attributes: every bytes value becomes the str it decodes to, any
\* other value passes through (defined where encode_raises is false)
encode_attributes(attributes) ==
    [k \in DOMAIN attributes |->
        IF attributes[k].kind = "bytes"
        THEN Str(Utf8Decode(attributes[k].data)[1])
        ELSE attributes[k]]

-----------------------------------------------------------------------------
(* The values the model draws its inputs from. *)

Keys == {"k1", "k2"}
TextV1 == <<118>>           \* "v"
TextV2 == <<233>>           \* "e" with an acute accent: two bytes in UTF-8
Vals == {TextV1, TextV2}
Labels == {"a", "b"}
TextS == <<115>>            \* "s"
TextT == <<116>>            \* "t"

\* the value an item of an initial collection holds under a key
StoredVal(k) == IF k = "k1" THEN TextV1 ELSE TextV2

\* the attribute dicts of the items of an initial collection (wire form: str)
StoredAttrs == {[k \in S |-> Str(StoredVal(k))] : S \in SUBSET Keys}

StoredSecrets == {Bytes(Utf8Encode(TextS))}

\* every JSON object over Keys with string values from Vals
JsonDicts == UNION {[S -> Vals] : S \in SUBSET Keys}

\* the JSON objects with at most one member
SmallJsonDicts == {j \in JsonDicts : Cardinality(DOMAIN j) <= 1}

\* the collections of the initial states: at most MaxItems items, item i at path i
Stores ==
    UNION {
        {[i \in 1..n |-> [label |-> f[i].label, attrs |-> f[i].attrs,
                          secret |-> f[i].secret, path |-> i]] :
            f \in [1..n -> [label : Labels, attrs : StoredAttrs,
                            secret : StoredSecrets]]} :
        n \in 0..MaxItems}

\* a secret that is not UTF-8: Item.get_secret() returns any bytes
SecretNotUtf8 == <<255>>

\* the secrets of the items of a collection whose items differ in their secret
VariedSecrets == {Bytes(Utf8Encode(TextS)), Bytes(SecretNotUtf8)}

\* the attribute dicts of the items of such a collection
FewStoredAttrs == {[k \in S |-> Str(StoredVal(k))] : S \in {{}, {"k1"}}}

\* collections whose items differ in label, attributes and secret
SecretStores ==
    UNION {
        {[i \in 1..n |-> [label |-> f[i].label, attrs |-> f[i].attrs,
                          secret |-> f[i].secret, path |-> i]] :
            f \in [1..n -> [label : Labels, attrs : FewStoredAttrs,
                            secret : VariedSecrets]]} :
        n \in 0..MaxItems}

\* the paths a --path filter names: those in use and the next one
PathArgs == {None} \cup {Some(p) : p \in 1..(MaxItems + 1)}
LabelArgs == {None} \cup {Some(l) : l \in Labels}

-----------------------------------------------------------------------------
(* KeyringManager: search. *)

\* item_matches with the 'OR' branch combining the three facts as 'AND' does
item_matches_or_as_and(item, encoded_attributes, label, path, logic) ==
    LET matches_attributes ==
            \A k \in DOMAIN encoded_attributes :
                Get(item.attrs, k) = Some(encoded_attributes[k])
        matches_label == (label = None) \/ (label = Some(item.label))
        matches_path == (path = None) \/ (path = Some(item.path))
    IN IF logic \in {"AND", "OR"}
       THEN matches_attributes /\ matches_label /\ matches_path
       ELSE FALSE

\* item_matches without the comparison of the path
item_matches_no_path(item, encoded_attributes, label, path, logic) ==
    LET matches_attributes ==
            \A k \in DOMAIN encoded_attributes :
                Get(item.attrs, k) = Some(encoded_attributes[k])
        matches_label == (label = None) \/ (label = Some(item.label))
        matches_path == TRUE
    IN IF logic = "AND"
       THEN matches_attributes /\ matches_label /\ matches_path
       ELSE IF logic = "OR"
       THEN matches_attributes \/ matches_label \/ matches_path
       ELSE FALSE

\* the body of the loop of search_items for the item at position i
item_matches(item, encoded_attributes, label, path, logic) ==
    LET matches_attributes ==
            \A k \in DOMAIN encoded_attributes :
                Get(item.attrs, k) = Some(encoded_attributes[k])
        matches_label == (label = None) \/ (label = Some(item.label))
        matches_path == (path = None) \/ (path = Some(item.path))
    IN IF logic = "AND"
       THEN matches_attributes /\ matches_label /\ matches_path
       ELSE IF logic = "OR"
       THEN matches_attributes \/ matches_label \/ matches_path
       ELSE FALSE

RECURSIVE scan_items(_, _, _, _, _, _)
scan_items(its, i, encoded_attributes, label, path, logic) ==
    IF i > Len(its) THEN <<>>
    ELSE (IF item_matches(its[i], encoded_attributes, label, path, logic)
          THEN <<i>> ELSE <<>>)
         \o scan_items(its, i + 1, encoded_attributes, label, path, logic)

\* search_items: the positions of the matched items, in enumeration order
\* (attributes is an optional dict; defined where it encodes)
search_items(its, attributes, label, path, logic) ==
    LET attrs == IF attributes = None THEN EmptyDict ELSE attributes[1]
    IN scan_items(its, 1, encode_attributes(attrs), label, path, logic)

\* a sequence without its element at position i
RemoveAt(s, i) == SubSeq(s, 1, i - 1) \o SubSeq(s, i + 1, Len(s))

\* the truth value Python gives an optional dict: None and {} are false
Truthy(d) == d # None /\ DOMAIN d[1] # {}

\* the truth value Python gives an optional str: None and '' are false
TruthyStr(s) == s # None /\ s[1] # <<>>

-----------------------------------------------------------------------------
(* KeyringManager: create, read, update, delete, list. *)

\* Item.set_secret / Collection.create_item store a str secret as its UTF-8 bytes
format_secret(secret) == Bytes(Utf8Encode(secret))

\* create_item with replace=True: an item with the same attributes is replaced
create_item_replacing(its, path, item_label, attributes, secret) ==
    LET enc == encode_attributes(attributes)
        same == {i \in 1..Len(its) : its[i].attrs = enc}
    IN IF same # {}
       THEN LET i == CHOOSE i \in same : \A j \in same : i <= j
            IN [its EXCEPT ![i] = [label |-> item_label, attrs |-> enc,
                                   secret |-> format_secret(secret),
                                   path |-> its[i].path]]
       ELSE Append(its, [label |-> item_label, attrs |-> enc,
                         secret |-> format_secret(secret), path |-> path])

\* create_item: Collection.create_item(..., replace=False) adds a new item at a
\* new path whatever the collection already holds
create_item(its, path, item_label, attributes, secret) ==
    Append(its, [label |-> item_label,
                 attrs |-> encode_attributes(attributes),
                 secret |-> format_secret(secret),
                 path |-> path])

\* the record read_item builds for one item
read_record(item) ==
    [label |-> item.label,
     attributes |-> decode_attributes(item.attrs),
     secret |-> item.secret]

\* read_item taking the last match where the code takes items[0]
read_item_last_match(its, attributes, label, path, logic, multiple) ==
    LET found == search_items(its, attributes, label, path, logic)
    IN IF found # <<>>
       THEN IF multiple
            THEN [shape |-> "list",
                  recs |-> [n \in 1..Len(found) |-> read_record(its[found[n]])]]
            ELSE [shape |-> "dict",
                  recs |-> <<read_record(its[found[Len(found)]])>>]
       ELSE [shape |-> "None", recs |-> <<>>]

\* read_item: None, the first match's record, or the list of all matches' records
read_item(its, attributes, label, path, logic, multiple) ==
    LET found == search_items(its, attributes, label, path, logic)
    IN IF found # <<>>
       THEN IF multiple
            THEN [shape |-> "list",
                  recs |-> [n \in 1..Len(found) |-> read_record(its[found[n]])]]
            ELSE [shape |-> "dict", recs |-> <<read_record(its[found[1]])>>]
       ELSE [shape |-> "None", recs |-> <<>>]

\* update_item: [raised |-> "Item not found" was raised, items |-> the collection after]
update_item(its, attributes, new_secret, new_attributes, label, path, logic, merge) ==
    LET found == search_items(its, attributes, label, path, logic)
    IN IF found # <<>>
       THEN LET i == found[1]
                afterSecret ==
                    IF TruthyStr(new_secret)
                    THEN [its EXCEPT ![i].secret = format_secret(new_secret[1])]
                    ELSE its
                afterAttrs ==
                    IF Truthy(new_attributes)
                    THEN LET encoded_new_attributes ==
                                 encode_attributes(new_attributes[1])
                         IN IF merge
                            THEN [afterSecret EXCEPT ![i].attrs =
                                     DictMerge(afterSecret[i].attrs,
                                               encoded_new_attributes)]
                            ELSE [afterSecret EXCEPT ![i].attrs =
                                     encoded_new_attributes]
                    ELSE afterSecret
            IN [raised |-> FALSE, items |-> afterAttrs]
       ELSE [raised |-> TRUE, items |-> its]

\* delete_item acting on every match where the code takes items[0]
delete_item_every_match(its, attributes, label, path, logic, delete_attributes) ==
    LET found == search_items(its, attributes, label, path, logic)
        hit == {found[n] : n \in 1..Len(found)}
    IN IF found # <<>>
       THEN IF Truthy(delete_attributes)
            THEN LET encoded_delete_attributes ==
                         encode_attributes(delete_attributes[1])
                 IN [raised |-> FALSE,
                     items |-> [n \in 1..Len(its) |->
                                   IF n \in hit
                                   THEN [its[n] EXCEPT !.attrs =
                                            DictWithout(its[n].attrs,
                                                DOMAIN encoded_delete_attributes)]
                                   ELSE its[n]]]
            ELSE [raised |-> FALSE,
                  items |-> SelectSeq(its,
                                LAMBDA it : it.path \notin {its[n].path : n \in hit})]
       ELSE [raised |-> TRUE, items |-> its]

\* delete_item: [raised |-> "Item not found" was raised, items |-> the collection after]
delete_item(its, attributes, label, path, logic, delete_attributes) ==
    LET found == search_items(its, attributes, label, path, logic)
    IN IF found # <<>>
       THEN LET i == found[1]
            IN IF Truthy(delete_attributes)
               THEN LET encoded_delete_attributes ==
                            encode_attributes(delete_attributes[1])
                    IN [raised |-> FALSE,
                        items |-> [its EXCEPT ![i].attrs =
                                      DictWithout(its[i].attrs,
                                                  DOMAIN encoded_delete_attributes)]]
               ELSE [raised |-> FALSE, items |-> RemoveAt(its, i)]
       ELSE [raised |-> TRUE, items |-> its]

\* list_items: label, decoded attributes and path of every item
list_items(its) ==
    [n \in 1..Len(its) |->
        [label |-> its[n].label,
         attributes |-> decode_attributes(its[n].attrs),
         path |-> its[n].path]]

-----------------------------------------------------------------------------
(* main(): the helpers at the JSON and prompt boundary. *)

\* decode_bytes, the object_hook of json.loads: every str value becomes bytes
decode_bytes(dct) ==
    [k \in DOMAIN dct |->
        IF dct[k].kind = "str" THEN Bytes(Utf8Encode(dct[k].data)) ELSE dct[k]]

\* json.loads(text, object_hook=decode_bytes) of a JSON object with string values
json_loads(j) == decode_bytes([k \in DOMAIN j |-> Str(j[k])])

\* encode_bytes raises for a bytes value that is not UTF-8; json.dumps of a
\* read result calls it for every attribute value and every secret
dumps_raises(recs) ==
    \E n \in 1..Len(recs) :
        \/ Utf8Decode(recs[n].secret.data) = None
        \/ \E k \in DOMAIN recs[n].attributes :
               Utf8Decode(recs[n].attributes[k].data) = None

\* check_prompt_for_secret: s or (getpass(...) if s == '' else None)
check_prompt_for_secret(s, typed) ==
    IF TruthyStr(s) THEN s
    ELSE IF s = Some(<<>>) THEN Some(typed)
    ELSE None

-----------------------------------------------------------------------------
(* The command lines the model runs. *)

\* the namespace argparse builds; a field a subcommand lacks keeps its value here
BaseArgs ==
    [command |-> "list", collection |-> "main", unlock |-> FALSE,
     relock |-> FALSE, label |-> None, attributes |-> EmptyDict, path |-> None,
     logic |-> "AND", multiple |-> FALSE, secret |-> Some(<<>>),
     new_secret |-> None, new_attributes |-> None, replace |-> FALSE,
     delete_attributes |-> None, typed |-> <<>>]

\* --secret / --new_secret with what the user types if getpass prompts
SecretInputs ==
    {<<Some(<<>>), <<>>>>, <<Some(<<>>), TextS>>, <<Some(TextT), <<>>>>}

\* an optional JSON object option: absent, or one of ds
OptJson(ds) == {None} \cup {Some(d) : d \in ds}

\* the filters of read, update and delete, with --attributes drawn from ds
Filters(ds) ==
    {[BaseArgs EXCEPT !.attributes = a, !.label = l, !.path = p, !.logic = g] :
        a \in ds, l \in LabelArgs, p \in PathArgs, g \in {"AND", "OR"}}

CreateArgs ==
    {[BaseArgs EXCEPT !.command = "create", !.label = Some(l), !.attributes = a,
                      !.secret = si[1], !.typed = si[2]] :
        l \in Labels, a \in JsonDicts, si \in SecretInputs}

ReadArgs ==
    {[f EXCEPT !.command = "read", !.multiple = m] :
        f \in Filters(JsonDicts), m \in BOOLEAN}

UpdateArgs ==
    {[f EXCEPT !.command = "update", !.new_secret = si[1], !.typed = si[2],
               !.new_attributes = na, !.replace = r] :
        f \in Filters({EmptyDict}),
        si \in SecretInputs \cup {<<None, <<>>>>},
        na \in OptJson(SmallJsonDicts \cup {[k \in Keys |-> StoredVal(k)]}),
        r \in BOOLEAN}

DeleteArgs ==
    {[f EXCEPT !.command = "delete", !.delete_attributes = da] :
        f \in Filters(SmallJsonDicts),
        da \in OptJson({[k \in S |-> TextV1] : S \in SUBSET Keys})}

ListArgs == {[BaseArgs EXCEPT !.command = "list"]}

\* the command lines of the whole-invocation model: every subcommand, the
\* global flags, a present and an absent collection, a few filters
SessionArgs ==
    {[a EXCEPT !.collection = c, !.unlock = u, !.relock = r] :
        a \in  {x \in CreateArgs : x.attributes = EmptyDict /\ x.label = Some("a")
                                   /\ x.secret = Some(TextT)}
          \cup {x \in ReadArgs : x.attributes = EmptyDict /\ x.path = None
                                 /\ x.logic = "AND"}
          \cup {x \in UpdateArgs : x.label = None /\ x.path \in {None, Some(1)}
                                   /\ x.logic = "AND" /\ x.new_secret = None
                                   /\ x.new_attributes \in OptJson({[k \in {"k2"} |-> TextV1]})
                                   /\ ~x.replace}
          \cup {x \in DeleteArgs : x.label = None /\ x.path \in {None, Some(1)}
                                   /\ x.logic = "AND" /\ x.attributes = EmptyDict
                                   /\ x.delete_attributes \in OptJson({[k \in {"k1"} |-> TextV1]})}
          \cup ListArgs,
        c \in {"main", "nope"}, u \in BOOLEAN, r \in BOOLEAN}

\* the labels of the collections get_all_collections returns; `items` and
\* `locked` are those of the one labelled "main"
ServiceCollections == <<"other", "main">>

-----------------------------------------------------------------------------
(* KeyringManager: collection lookup, lock handling, teardown. *)

RECURSIVE first_labelled(_, _, _)
first_labelled(collections, i, name) ==
    IF i > Len(collections) THEN None
    ELSE IF collections[i] = name THEN Some(i)
    ELSE first_labelled(collections, i + 1, name)

\* get_collection: the first collection labelled collection_name, or None where
\* the code raises ValueError("Collection ... not found")
get_collection(collection_name) ==
    first_labelled(ServiceCollections, 1, collection_name)

\* what an unlock request comes to: what Collection.unlock() returns (the prompt
\* was dismissed or not) and what is_locked() answers afterwards are two
\* separate answers of the service
UnlockOutcomes == {"accepted", "dismissed", "refused", "dismissed_unlocked"}

\* is_locked() after an unlock request of that outcome
StillLocked(outcome) == outcome \in {"dismissed", "refused"}

\* the value Collection.unlock() returns for that outcome
Dismissed(outcome) == outcome \in {"dismissed", "dismissed_unlocked"}

\* _unlock without the `if self._locked` guard: a request is always sent
unlock_always(lk, reqs, outcome) ==
    LET after == StillLocked(outcome)
    IN [locked |-> after, unlockReqs |-> reqs + 1,
        dismissed |-> Dismissed(outcome), raised |-> after]

\* _unlock raising on what Collection.unlock() returned, not on the re-check
unlock_raises_on_dismissal(lk, reqs, outcome) ==
    IF lk
    THEN [locked |-> StillLocked(outcome), unlockReqs |-> reqs + 1,
          dismissed |-> Dismissed(outcome), raised |-> Dismissed(outcome)]
    ELSE [locked |-> lk, unlockReqs |-> reqs, dismissed |-> FALSE,
          raised |-> FALSE]

\* _unlock on a collection whose lock state is lk, reqs unlock requests sent so
\* far: nothing if unlocked, else one request, then the re-check that raises
unlock(lk, reqs, outcome) ==
    IF lk
    THEN LET after == StillLocked(outcome)
         IN [locked |-> after, unlockReqs |-> reqs + 1,
             dismissed |-> Dismissed(outcome), raised |-> after]
    ELSE [locked |-> lk, unlockReqs |-> reqs, dismissed |-> FALSE,
          raised |-> FALSE]

\* _lock: a lock request unless already locked; the request may fail (ok = FALSE)
lock(lk, reqs, ok) ==
    IF ~lk
    THEN [locked |-> ok, lockReqs |-> reqs + 1, raised |-> ~ok]
    ELSE [locked |-> lk, lockReqs |-> reqs, raised |-> FALSE]

\* _close: relock if asked, then close the connection; an exception of _lock
\* leaves the method before connection.close()
close(relock, lk, reqs, ok) ==
    IF relock
    THEN LET l == lock(lk, reqs, ok)
         IN [locked |-> l.locked, lockReqs |-> l.lockReqs,
             conn |-> IF l.raised THEN "open" ELSE "closed"]
    ELSE [locked |-> lk, lockReqs |-> reqs, conn |-> "closed"]

-----------------------------------------------------------------------------
(* One invocation of the command line, step by step. *)

NoOut == [shape |-> "unset", recs |-> <<>>]

\* the state every model starts in, the collection being one of stores
InitWith(stores) ==
    /\ items \in stores
    /\ nextPath = Len(items) + 1
    /\ retcode = -1
    /\ fault = "none"
    /\ unlockReqs = 0
    /\ lockReqs = 0
    /\ closeRuns = 0
    /\ enumerated = FALSE
    /\ matched = <<>>
    /\ out = NoOut
    /\ dismissed = FALSE
    /\ calls = 0
    /\ cIn = EmptyDict
    /\ cWire = None
    /\ cOut = None
    /\ items0 = items

InitCommon == InitWith(Stores)

\* the process has started; nothing is connected yet
Init ==
    /\ InitCommon
    /\ locked \in BOOLEAN
    /\ locked0 = locked
    /\ pc = "idle"
    /\ args = BaseArgs
    /\ conn = "none"
    /\ registered = FALSE

\* parser.parse_args()
Start ==
    /\ pc = "idle"
    /\ \E a \in SessionArgs : args' = a
    /\ pc' = "connect"
    /\ UNCHANGED <<items, locked, nextPath, conn, registered, retcode, fault,
                   unlockReqs, lockReqs, closeRuns, enumerated, matched, out,
                   dismissed, calls, codecVars, historyVars>>

\* KeyringManager.__init__: secretstorage.dbus_init(), which raises when the
\* service cannot be reached
Connect ==
    /\ pc = "connect"
    /\ \E up \in BOOLEAN :
        IF up
        THEN conn' = "open" /\ pc' = "resolve" /\ fault' = fault
        ELSE conn' = conn /\ pc' = "exiting"
             /\ fault' = "SecretServiceNotAvailableException"
    /\ UNCHANGED <<items, locked, nextPath, args, registered, retcode,
                   unlockReqs, lockReqs, closeRuns, enumerated, matched, out,
                   dismissed, calls, codecVars, historyVars>>

\* KeyringManager.__init__: get_collection(), then atexit.register(self._close);
\* the ValueError of get_collection leaves __init__ before the registration
Resolve ==
    /\ pc = "resolve"
    /\ IF get_collection(args.collection) # None
       THEN registered' = TRUE /\ pc' = "lockcheck" /\ fault' = fault
       ELSE registered' = registered /\ pc' = "exiting" /\ fault' = "ValueError"
    /\ UNCHANGED <<items, locked, nextPath, args, conn, retcode,
                   unlockReqs, lockReqs, closeRuns, enumerated, matched, out,
                   dismissed, calls, codecVars, historyVars>>

\* LockCheck without the `if not args.unlock: return 2`
LockCheckAlwaysUnlock ==
    /\ pc = "lockcheck"
    /\ IF locked
       THEN retcode' = retcode /\ pc' = "unlock"
       ELSE retcode' = retcode /\ pc' = "body"
    /\ UNCHANGED <<items, locked, nextPath, args, conn, registered, fault,
                   unlockReqs, lockReqs, closeRuns, enumerated, matched, out,
                   dismissed, calls, codecVars, historyVars>>

\* main(): if manager._locked: return 2 unless --unlock
LockCheck ==
    /\ pc = "lockcheck"
    /\ IF locked
       THEN IF ~args.unlock
            THEN retcode' = 2 /\ pc' = "exiting"
            ELSE retcode' = retcode /\ pc' = "unlock"
       ELSE retcode' = retcode /\ pc' = "body"
    /\ UNCHANGED <<items, locked, nextPath, args, conn, registered, fault,
                   unlockReqs, lockReqs, closeRuns, enumerated, matched, out,
                   dismissed, calls, codecVars, historyVars>>

\* main(): manager._unlock(); its ValueError is not caught
Unlock ==
    /\ pc = "unlock"
    /\ \E outcome \in UnlockOutcomes :
        LET u == unlock(locked, unlockReqs, outcome)
        IN /\ locked' = u.locked
           /\ unlockReqs' = u.unlockReqs
           /\ dismissed' = u.dismissed
           /\ fault' = IF u.raised THEN "ValueError" ELSE fault
           /\ pc' = IF u.raised THEN "exiting" ELSE "body"
    /\ UNCHANGED <<items, nextPath, args, conn, registered, retcode,
                   lockReqs, closeRuns, enumerated, matched, out,
                   calls, codecVars, historyVars>>

\* the paths of the items at the positions idx
PathsOf(its, idx) == [n \in 1..Len(idx) |-> its[idx[n]].path]

\* main(), command "create": the item is created, the result is an Item (true)
BodyCreate ==
    /\ pc = "body"
    /\ args.command = "create"
    /\ LET attributes == json_loads(args.attributes)
           secret == check_prompt_for_secret(args.secret, args.typed)
       IN items' = create_item(items, nextPath, args.label[1], attributes,
                               secret[1])
    /\ nextPath' = nextPath + 1
    /\ retcode' = 0
    /\ pc' = "exiting"
    /\ UNCHANGED <<locked, args, conn, registered, fault, unlockReqs, lockReqs,
                   closeRuns, enumerated, matched, out, dismissed, calls,
                   codecVars, historyVars>>

\* main(), command "read": json.dumps of a result, "Item not found" and 1 for
\* None; the UnicodeDecodeError of encode_bytes is not caught
BodyRead ==
    /\ pc = "body"
    /\ args.command = "read"
    /\ LET attributes == Some(json_loads(args.attributes))
           result == read_item(items, attributes, args.label, args.path,
                               args.logic, args.multiple)
       IN /\ matched' = PathsOf(items, search_items(items, attributes,
                                    args.label, args.path, args.logic))
          /\ out' = result
          /\ IF result.shape = "None"
             THEN retcode' = 1 /\ fault' = fault
             ELSE IF dumps_raises(result.recs)
             THEN retcode' = retcode /\ fault' = "UnicodeDecodeError"
             ELSE retcode' = 0 /\ fault' = fault
    /\ enumerated' = TRUE
    /\ pc' = "exiting"
    /\ UNCHANGED <<items, locked, nextPath, args, conn, registered, unlockReqs,
                   lockReqs, closeRuns, dismissed, calls, codecVars, historyVars>>

\* main(), command "update": --new_attributes is parsed if the option is a
\* non-empty string; the ValueError of update_item is caught and gives 1
BodyUpdate ==
    /\ pc = "body"
    /\ args.command = "update"
    /\ LET attributes == Some(json_loads(args.attributes))
           merge == ~args.replace
           new_secret == check_prompt_for_secret(args.new_secret, args.typed)
           new_attributes == IF args.new_attributes # None
                             THEN Some(json_loads(args.new_attributes[1]))
                             ELSE None
           r == update_item(items, attributes, new_secret, new_attributes,
                            args.label, args.path, args.logic, merge)
       IN /\ matched' = PathsOf(items, search_items(items, attributes,
                                    args.label, args.path, args.logic))
          /\ items' = r.items
          /\ retcode' = IF r.raised THEN 1 ELSE 0
    /\ enumerated' = TRUE
    /\ pc' = "exiting"
    /\ UNCHANGED <<locked, nextPath, args, conn, registered, fault, unlockReqs,
                   lockReqs, closeRuns, out, dismissed, calls, codecVars, historyVars>>

\* main(), command "delete": --delete_attributes is parsed if the option is a
\* non-empty string; the ValueError of delete_item is caught and gives 1
BodyDelete ==
    /\ pc = "body"
    /\ args.command = "delete"
    /\ LET attributes == Some(json_loads(args.attributes))
           delete_attributes == IF args.delete_attributes # None
                                THEN Some(json_loads(args.delete_attributes[1]))
                                ELSE None
           r == delete_item(items, attributes, args.label, args.path,
                            args.logic, delete_attributes)
       IN /\ matched' = PathsOf(items, search_items(items, attributes,
                                    args.label, args.path, args.logic))
          /\ items' = r.items
          /\ retcode' = IF r.raised THEN 1 ELSE 0
    /\ enumerated' = TRUE
    /\ pc' = "exiting"
    /\ UNCHANGED <<locked, nextPath, args, conn, registered, fault, unlockReqs,
                   lockReqs, closeRuns, out, dismissed, calls, codecVars, historyVars>>

\* main(), command "list": "No items found" and 1 for an empty collection
BodyList ==
    /\ pc = "body"
    /\ args.command = "list"
    /\ out' = [shape |-> "list", recs |-> list_items(items)]
    /\ retcode' = IF items # <<>> THEN 0 ELSE 1
    /\ enumerated' = TRUE
    /\ pc' = "exiting"
    /\ UNCHANGED <<items, locked, nextPath, args, conn, registered, fault,
                   unlockReqs, lockReqs, closeRuns, matched, dismissed, calls,
                   codecVars, historyVars>>

\* interpreter exit: the atexit handlers run, _close if it was registered; an
\* exception of a handler is printed and the process still exits
AtExit ==
    /\ pc = "exiting"
    /\ IF registered
       THEN \E ok \in BOOLEAN :
               LET c == close(args.relock, locked, lockReqs, ok)
               IN /\ locked' = c.locked
                  /\ lockReqs' = c.lockReqs
                  /\ conn' = c.conn
                  /\ closeRuns' = closeRuns + 1
       ELSE UNCHANGED <<locked, lockReqs, conn, closeRuns>>
    /\ pc' = "exited"
    /\ UNCHANGED <<items, nextPath, args, registered, retcode, fault,
                   unlockReqs, enumerated, matched, out, dismissed, calls,
                   codecVars, historyVars>>

Next ==
    \/ Start
    \/ Connect
    \/ Resolve
    \/ LockCheck
    \/ Unlock
    \/ BodyCreate
    \/ BodyRead
    \/ BodyUpdate
    \/ BodyDelete
    \/ BodyList
    \/ AtExit

Spec == Init /\ [][Next]_vars

-----------------------------------------------------------------------------
(* One command on an unlocked collection, its options drawn from a wide set: *)
(* the state main() is in when it reaches the command's branch.             *)

InitBodyOn(stores, argSet) ==
    /\ InitWith(stores)
    /\ locked = FALSE
    /\ locked0 = locked
    /\ pc = "body"
    /\ args \in argSet
    /\ conn = "open"
    /\ registered = TRUE

InitBody(argSet) == InitBodyOn(Stores, argSet)

InitCreate == InitBody(CreateArgs)
SpecCreate == InitCreate /\ [][BodyCreate]_vars

InitRead == InitBody(ReadArgs)
SpecRead == InitRead /\ [][BodyRead]_vars

\* the read command on a collection whose items differ in their secret
InitReadSecrets == InitBodyOn(SecretStores, ReadArgs)
SpecReadSecrets == InitReadSecrets /\ [][BodyRead]_vars

InitUpdate == InitBody(UpdateArgs)
SpecUpdate == InitUpdate /\ [][BodyUpdate]_vars

InitDelete == InitBody(DeleteArgs)
SpecDelete == InitDelete /\ [][BodyDelete]_vars

\* an update or a delete on a collection whose items differ in their secret
\* (every filter; for update a secret and attributes given, empty or absent)
MutateArgs ==
    {x \in UpdateArgs :
        /\ x.new_secret \in {None, Some(TextT)}
        /\ x.new_attributes \in OptJson({EmptyDict, [k \in {"k2"} |-> TextV1]})}
    \cup DeleteArgs
InitMutate == InitBodyOn(SecretStores, MutateArgs)
NextMutate == BodyUpdate \/ BodyDelete
SpecMutate == InitMutate /\ [][NextMutate]_vars

-----------------------------------------------------------------------------
(* The lock methods of one KeyringManager, called in any order. *)

InitLock ==
    /\ InitCommon
    /\ locked \in BOOLEAN
    /\ locked0 = locked
    /\ pc = "api"
    /\ args = BaseArgs
    /\ conn = "open"
    /\ registered = TRUE

\* a call of _unlock; fault is the exception the call raised
CallUnlock ==
    /\ pc \in {"api", "after_unlock", "after_lock"}
    /\ calls < MaxCalls
    /\ \E outcome \in UnlockOutcomes :
        LET u == unlock(locked, unlockReqs, outcome)
        IN /\ locked' = u.locked
           /\ unlockReqs' = u.unlockReqs
           /\ dismissed' = u.dismissed
           /\ fault' = IF u.raised THEN "ValueError" ELSE "none"
    /\ calls' = calls + 1
    /\ pc' = "after_unlock"
    /\ UNCHANGED <<items, nextPath, args, conn, registered, retcode,
                   lockReqs, closeRuns, enumerated, matched, out, codecVars, historyVars>>

\* a call of _lock; fault is the exception the call raised
CallLock ==
    /\ pc \in {"api", "after_unlock", "after_lock"}
    /\ calls < MaxCalls
    /\ \E ok \in BOOLEAN :
        LET l == lock(locked, lockReqs, ok)
        IN /\ locked' = l.locked
           /\ lockReqs' = l.lockReqs
           /\ fault' = IF l.raised THEN "DBusErrorResponse" ELSE "none"
    /\ calls' = calls + 1
    /\ pc' = "after_lock"
    /\ UNCHANGED <<items, nextPath, args, conn, registered, retcode,
                   unlockReqs, closeRuns, enumerated, matched, out, dismissed,
                   codecVars, historyVars>>

NextLock == CallUnlock \/ CallLock

SpecLock == InitLock /\ [][NextLock]_vars

-----------------------------------------------------------------------------
(* The attribute codec on its own: a mapping is encoded, then decoded. *)

CodePoints == {118, 233, 8364}      \* "v", e-acute, the euro sign
ByteValues == {118, 195, 169, 255}  \* "v", the two bytes of e-acute, a non-UTF-8 byte

SeqsUpTo(S, n) == UNION {[1..m -> S] : m \in 0..n}

\* str values, bytes values that are UTF-8 and bytes values that are not
LogicalValues ==
    {Str(t) : t \in SeqsUpTo(CodePoints, MaxValueLen)}
    \cup {Bytes(Utf8Encode(t)) : t \in SeqsUpTo(CodePoints, MaxValueLen)}
    \cup {Bytes(b) : b \in SeqsUpTo(ByteValues, MaxValueLen)}

LogicalDicts == UNION {[S -> LogicalValues] : S \in SUBSET Keys}

InitCodec ==
    /\ items = <<>>
    /\ nextPath = 1
    /\ retcode = -1
    /\ fault = "none"
    /\ unlockReqs = 0
    /\ lockReqs = 0
    /\ closeRuns = 0
    /\ enumerated = FALSE
    /\ matched = <<>>
    /\ out = NoOut
    /\ dismissed = FALSE
    /\ calls = 0
    /\ locked = FALSE
    /\ items0 = items
    /\ locked0 = locked
    /\ pc = "codec"
    /\ args = BaseArgs
    /\ conn = "none"
    /\ registered = FALSE
    /\ cIn \in LogicalDicts
    /\ cWire = None
    /\ cOut = None

\* a call of _encode_attributes(cIn); fault is the exception the call raised
Encode ==
    /\ pc = "codec"
    /\ IF encode_raises(cIn)
       THEN cWire' = cWire /\ fault' = "UnicodeDecodeError" /\ pc' = "codec_done"
       ELSE cWire' = Some(encode_attributes(cIn)) /\ fault' = fault
            /\ pc' = "encoded"
    /\ UNCHANGED <<items, locked, nextPath, args, conn, registered, retcode,
                   unlockReqs, lockReqs, closeRuns, enumerated, matched, out,
                   dismissed, calls, cIn, cOut, historyVars>>

\* a call of _decode_attributes on what _encode_attributes returned
Decode ==
    /\ pc = "encoded"
    /\ cOut' = Some(decode_attributes(cWire[1]))
    /\ pc' = "codec_done"
    /\ UNCHANGED <<items, locked, nextPath, args, conn, registered, retcode,
                   fault, unlockReqs, lockReqs, closeRuns, enumerated, matched,
                   out, dismissed, calls, cIn, cWire, historyVars>>

NextCodec == Encode \/ Decode

SpecCodec == InitCodec /\ [][NextCodec]_vars

-----------------------------------------------------------------------------
(* The statements checked, in the words of the specification.  They speak   *)
(* of the command line as given (args) and of the collection as it was      *)
(* (items0), and restate the Matcher's predicate independently of           *)
(* search_items.                                                            *)

\* the wire form of a JSON object given on the command line
WireOf(j) == [k \in DOMAIN j |-> Str(j[k])]

\* attrsMatch: every key of the filter is present with an equal value
AttrsMatch(item, a) ==
    \A k \in DOMAIN a.attributes :
        k \in DOMAIN item.attrs /\ item.attrs[k] = Str(a.attributes[k])

LabelMatch(item, a) == a.label = None \/ a.label = Some(item.label)

PathMatch(item, a) == a.path = None \/ a.path = Some(item.path)

PredicateHolds(item, a) ==
    IF a.logic = "AND"
    THEN AttrsMatch(item, a) /\ LabelMatch(item, a) /\ PathMatch(item, a)
    ELSE AttrsMatch(item, a) \/ LabelMatch(item, a) \/ PathMatch(item, a)

MatchPositions(its, a) == {i \in 1..Len(its) : PredicateHolds(its[i], a)}

HasMatch(its, a) == MatchPositions(its, a) # {}

FirstMatch(its, a) ==
    CHOOSE i \in MatchPositions(its, a) : \A j \in MatchPositions(its, a) : i <= j

PositionOf(its, p) == CHOOSE i \in 1..Len(its) : its[i].path = p

HasPath(its, p) == \E i \in 1..Len(its) : its[i].path = p

AllPaths(its) == [i \in 1..Len(its) |-> its[i].path]

Range(s) == {s[n] : n \in 1..Len(s)}

\* C1: delete removes the first match iff deleteAttributes is not given: for
\* every deleteAttributes given (also one with no keys) the first match
\* survives with its attributes minus the keys of deleteAttributes; when it is
\* not given the first match is gone from the collection.
C1_DeleteRemovesItemIffNoDeleteAttributes ==
    (pc = "exiting" /\ args.command = "delete" /\ HasMatch(items0, args)) =>
        LET i == FirstMatch(items0, args)
            p == items0[i].path
        IN IF args.delete_attributes # None
           THEN /\ HasPath(items, p)
                /\ items[PositionOf(items, p)].attrs =
                       DictWithout(items0[i].attrs,
                                   DOMAIN args.delete_attributes[1])
           ELSE ~HasPath(items, p)

\* C2: for every newAttributes given to update on a predicate with a match:
\* with merge the first match's attributes become the union of the current
\* ones and the encoded new ones, the new value winning; without merge they
\* become exactly the encoded new ones.
C2_UpdateSetsMergedOrReplacedAttributes ==
    (pc = "exiting" /\ args.command = "update" /\ HasMatch(items0, args)
     /\ args.new_attributes # None) =>
        LET i == FirstMatch(items0, args)
            new == WireOf(args.new_attributes[1])
        IN /\ Len(items) = Len(items0)
           /\ items[i].attrs = IF ~args.replace
                               THEN DictMerge(items0[i].attrs, new)
                               ELSE new

\* C3: match returns, in enumeration order, exactly the items for which the
\* combined predicate holds (ALL: all three facts, ANY: at least one, an unset
\* filter being true); so an empty predicate returns every item under both.
C3_MatchReturnsExactlyThePredicate ==
    (pc = "exiting" /\ args.command = "read") =>
        /\ Len(matched) = Cardinality(MatchPositions(items0, args))
        /\ \A n \in 1..Len(matched) :
               /\ HasPath(items0, matched[n])
               /\ PositionOf(items0, matched[n]) \in MatchPositions(items0, args)
        /\ \A m, n \in 1..Len(matched) :
               m < n => PositionOf(items0, matched[m])
                            < PositionOf(items0, matched[n])
        /\ ((args.attributes = EmptyDict /\ args.label = None /\ args.path = None)
               => matched = AllPaths(items0))

\* C3 witness: under ANY one fact alone (the label) selects the second of two items
C3_Witness ==
    /\ pc = "exiting" /\ args.command = "read" /\ args.logic = "OR"
    /\ DOMAIN args.attributes = {"k1"} /\ args.attributes["k1"] = TextV2
    /\ args.label = Some("a") /\ args.path = Some(3)
    /\ Len(items0) = 2 /\ items0[1].label = "b" /\ items0[2].label = "a"
    /\ "k1" \in DOMAIN items0[1].attrs
    /\ matched = <<2>>

\* two items of the collection carry the same label under different paths
TwoShareLabel(its, i, j) ==
    /\ i \in 1..Len(its) /\ j \in 1..Len(its) /\ i # j
    /\ its[i].label = its[j].label /\ its[i].path # its[j].path

\* the paths of the items labelled l
PathsLabelled(its, l) == {its[i].path : i \in {n \in 1..Len(its) : its[n].label = l}}

\* what C4 says of a filter under the combinators of logics
C4_Statement(logics) ==
    (pc = "exiting" /\ args.command = "read" /\ args.attributes = EmptyDict
     /\ args.logic \in logics) =>
        \A i, j \in 1..Len(items0) :
            TwoShareLabel(items0, i, j) =>
                /\ ((args.label = None /\ args.path = Some(items0[i].path))
                       => matched = <<items0[i].path>>)
                /\ ((args.path = None /\ args.label = Some(items0[i].label))
                       => /\ Range(matched) = PathsLabelled(items0, items0[i].label)
                          /\ Len(matched) = Cardinality(Range(matched)))

\* C4 as claimed: with two items of one label and different paths, and with
\* either combinator, a path-only filter returns exactly the one item at that
\* path and a label-only filter returns both.
C4_Original == C4_Statement({"AND", "OR"})

\* C4 as amended: that holds under ALL; under ANY a path-only or label-only
\* filter (no attributes) returns every item of the collection, in order.
C4_PathOrLabelAlone ==
    /\ C4_Statement({"AND"})
    /\ ((pc = "exiting" /\ args.command = "read" /\ args.attributes = EmptyDict
         /\ args.logic = "OR" /\ (args.label = None \/ args.path = None))
           => matched = AllPaths(items0))

\* C4 witness: ALL, path only, two items of one label: the second alone is returned
C4_Witness ==
    /\ pc = "exiting" /\ args.command = "read" /\ args.logic = "AND"
    /\ args.attributes = EmptyDict /\ args.label = None /\ args.path = Some(2)
    /\ Len(items0) = 2 /\ TwoShareLabel(items0, 1, 2)
    /\ matched = <<2>>

\* the secret create stores: --secret, or what is typed when it is empty
RequestSecret(a) == IF a.secret = Some(<<>>) THEN a.typed ELSE a.secret[1]

\* the item has the label, attributes and secret the create command names
SameAsRequest(item, a) ==
    /\ item.label = a.label[1]
    /\ item.attrs = WireOf(a.attributes)
    /\ item.secret = Bytes(Utf8Encode(RequestSecret(a)))

C6_ConnectionClosedOnEveryExit ==
    (pc = "exited" /\ conn # "none") => (conn = "closed" /\ closeRuns <= 1)

\* C7: every error raised during a command is caught at the dispatch boundary
\* and becomes a non-zero exit code; no invocation ends with an unhandled fault.
C7_NoUnhandledFault ==
    pc = "exited" =>
        /\ fault = "none"
        /\ retcode \in {0, 1, 2}
        /\ (get_collection(args.collection) = None => retcode # 0)

\* all values of the mapping are valid UTF-8: a bytes value is the encoding of a text
AllValidUtf8(A) ==
    \A k \in DOMAIN A :
        A[k].kind = "bytes" =>
            \E t \in SeqsUpTo(CodePoints, Len(A[k].data)) :
                Utf8Encode(t) = A[k].data

\* C8 as claimed: a mapping whose values are all valid UTF-8, text or bytes,
\* comes back equal from decoding its encoding.
C8_Original ==
    (pc = "codec_done" /\ AllValidUtf8(cIn)) => cOut = Some(cIn)

\* C8 as amended: for such a mapping the encoding succeeds and the decoded
\* mapping has the same keys, each bytes value equal to the original and each
\* text value replaced by its UTF-8 bytes; so the mapping comes back equal
\* exactly when none of its values is text.
C8_RoundTripGivesBytes ==
    (pc = "codec_done" /\ AllValidUtf8(cIn)) =>
        /\ cOut # None
        /\ DOMAIN cOut[1] = DOMAIN cIn
        /\ \A k \in DOMAIN cIn :
               /\ cOut[1][k].kind = "bytes"
               /\ (cIn[k].kind = "bytes" => cOut[1][k] = cIn[k])
               /\ (cIn[k].kind = "str" =>
                      /\ Utf8Decode(cOut[1][k].data) = Some(cIn[k].data)
                      /\ cOut[1][k] # cIn[k])
        /\ (cOut = Some(cIn)) <=> (\A k \in DOMAIN cIn : cIn[k].kind = "bytes")

\* C8 witness: a text value and a two-byte bytes value have gone through the codec
C8_Witness ==
    /\ pc = "codec_done" /\ cOut # None
    /\ DOMAIN cIn = Keys
    /\ cIn["k1"] = Str(<<233>>) /\ cIn["k2"] = Bytes(<<195, 169>>)
    /\ cOut[1]["k1"] = Bytes(<<195, 169>>)
    /\ cOut[1]["k2"] = Bytes(<<195, 169>>)

\* C9: when the resolved collection is locked at session start and --unlock is
\* not given, the invocation returns 2, sends no unlock request, and no item
\* is created, read, modified or deleted.
C9_LockedWithoutUnlockReturns2 ==
    (locked0 /\ ~args.unlock) =>
        /\ unlockReqs = 0
        /\ ~enumerated
        /\ items = items0
        /\ ((pc = "exited" /\ conn # "none" /\ get_collection(args.collection) # None)
               => (retcode = 2 /\ fault = "none"))

\* C9 witness: a delete on a locked collection of two items ended with 2
C9_Witness ==
    /\ pc = "exited" /\ locked0 /\ ~args.unlock /\ args.command = "delete"
    /\ args.collection = "main" /\ conn = "closed"
    /\ Len(items0) = 2 /\ retcode = 2

\* C10: _unlock on an unlocked collection is a no-op: no unlock request, no
\* prompt, no error, and the collection stays unlocked.
C10_UnlockOnUnlockedIsNoOp ==
    [][(~locked /\ pc' = "after_unlock" /\ calls' = calls + 1) =>
          /\ unlockReqs' = unlockReqs
          /\ locked' = FALSE
          /\ dismissed' = FALSE
          /\ fault' = "none"]_vars

\* C10 witness: _unlock has returned from its one call on a collection that was unlocked
C10_Witness ==
    /\ pc = "after_unlock" /\ calls = 1 /\ ~locked0
    /\ ~locked /\ unlockReqs = 0 /\ fault = "none"

\* the n-th match in enumeration order
NthMatch(its, a, n) ==
    CHOOSE i \in MatchPositions(its, a) :
        Cardinality({j \in MatchPositions(its, a) : j < i}) = n - 1

\* the full decoded record of an item: its label, its attributes with every
\* value as the UTF-8 bytes of the stored text, its secret
DecodedRecord(item) ==
    [label |-> item.label,
     attributes |-> [k \in DOMAIN item.attrs |->
                        Bytes(Utf8Encode(item.attrs[k].data))],
     secret |-> item.secret]

\* C11: read runs the Matcher; when nothing matches it returns None; with
\* multiple=false it otherwise returns the full decoded record (label,
\* attributes, secret) of the first match in enumeration order and of no other;
\* with multiple=true it returns the records of every match, in enumeration
\* order.
C11_ReadReturnsFirstOrAllRecords ==
    (pc = "exiting" /\ args.command = "read") =>
        LET M == MatchPositions(items0, args)
        IN /\ items = items0
           /\ IF M = {}
              THEN out.shape = "None" /\ Len(out.recs) = 0
              ELSE IF ~args.multiple
              THEN /\ out.shape = "dict"
                   /\ Len(out.recs) = 1
                   /\ out.recs[1] = DecodedRecord(items0[FirstMatch(items0, args)])
              ELSE /\ out.shape = "list"
                   /\ Len(out.recs) = Cardinality(M)
                   /\ \A n \in 1..Len(out.recs) :
                          out.recs[n] =
                              DecodedRecord(items0[NthMatch(items0, args, n)])

\* C11 witness: two items with different secrets both match a single read,
\* which returned the record of the first with its secret
C11_Witness ==
    /\ pc = "exiting" /\ args.command = "read" /\ ~args.multiple
    /\ Len(items0) = 2 /\ MatchPositions(items0, args) = {1, 2}
    /\ DOMAIN args.attributes = {"k1"}
    /\ items0[1].secret = Bytes(SecretNotUtf8)
    /\ items0[2].secret = Bytes(Utf8Encode(TextS))
    /\ out.shape = "dict"
    /\ out.recs = <<DecodedRecord(items0[1])>>

\* the new secret an update command provides: --new_secret, or what is typed
\* at the prompt when the option is given empty
ProvidedNewSecret(a) ==
    IF a.new_secret = Some(<<>>) THEN a.typed ELSE a.new_secret[1]

\* C12: whenever newSecret is provided to update, whatever its value (also the
\* empty secret), and the predicate has a match, the first match's secret is
\* newSecret afterwards; when it is not provided the secret is unchanged.
C12_UpdateOverwritesSecretUnconditionally ==
    (pc = "exiting" /\ args.command = "update" /\ HasMatch(items0, args)) =>
        LET i == FirstMatch(items0, args)
        IN /\ Len(items) = Len(items0)
           /\ IF args.new_secret # None
              THEN items[i].secret = Bytes(Utf8Encode(ProvidedNewSecret(args)))
              ELSE items[i].secret = items0[i].secret

\* C13: _unlock on a locked collection sends exactly one unlock request and
\* then re-checks the lock state: it returns normally exactly when the
\* collection is unlocked at the re-check and raises "still locked" when it is
\* locked, whether or not the prompt was reported dismissed; no second request
\* is ever sent. So no command body runs, and nothing is enumerated, returned
\* or changed, after an unlock attempt that left the collection locked.
C13_UnlockOnceThenRecheck ==
    /\ unlockReqs <= 1
    /\ (pc = "body" => ~locked)
    /\ ((registered /\ locked0 /\ args.unlock
         /\ pc \in {"body", "exiting", "exited"}) => unlockReqs = 1)
    /\ ((unlockReqs = 1 /\ pc \in {"body", "exiting"}) =>
           /\ locked0 /\ args.unlock
           /\ (locked <=> fault = "ValueError"))
    /\ ((unlockReqs = 1 /\ fault = "ValueError") =>
           /\ pc \in {"exiting", "exited"}
           /\ ~enumerated
           /\ items = items0
           /\ out = NoOut
           /\ retcode = -1)

\* C13 witness: an update with --unlock whose prompt was not dismissed but left
\* the collection locked: one request, the error, and the collection untouched
C13_Witness ==
    /\ pc = "exited" /\ locked0 /\ args.unlock /\ args.command = "update"
    /\ unlockReqs = 1 /\ ~dismissed /\ locked
    /\ fault = "ValueError" /\ ~enumerated
    /\ Len(items0) = 2 /\ items = items0

\* the item of its at path p
ItemAt(its, p) == its[PositionOf(its, p)]

\* C14: update and delete change at most one item, the first match in
\* enumeration order: every other item, later matches included, is still in
\* the collection with the label, attributes, secret and path it had, in the
\* order it had, and no item is added; when nothing matches, the operation
\* fails with "Item not found" and the whole collection is as it was.
C14_OnlyFirstMatchChanges ==
    (pc = "exiting" /\ args.command \in {"update", "delete"}) =>
        IF HasMatch(items0, args)
        THEN LET i == FirstMatch(items0, args)
             IN /\ retcode = 0
                /\ fault = "none"
                /\ \A j \in 1..Len(items0) :
                       j # i => /\ HasPath(items, items0[j].path)
                                /\ ItemAt(items, items0[j].path) = items0[j]
                /\ \A n \in 1..Len(items) : HasPath(items0, items[n].path)
                /\ \A m, n \in 1..Len(items) :
                       m < n => PositionOf(items0, items[m].path)
                                    < PositionOf(items0, items[n].path)
        ELSE /\ retcode = 1
             /\ fault = "none"
             /\ items = items0

\* C14 witness: a delete whose filter matches both items of the collection
\* removed the first and left the second, a later match, as it was
C14_Witness ==
    /\ pc = "exiting" /\ args.command = "delete" /\ args.delete_attributes = None
    /\ Len(items0) = 2 /\ MatchPositions(items0, args) = {1, 2}
    /\ items0[1].secret # items0[2].secret
    /\ items = <<items0[2]>>
    /\ retcode = 0

====
